---- MODULE Spec2Model ----
(***************************************************************************)
(* Model of the step-wise slice sampler of src/slice.py (class Elliptical). *)
(*                                                                         *)
(* Positions are integers in eighths, heights are integers in hundredths;  *)
(* a draw of np.random.uniform is one of Res evenly spaced fractions i/Res *)
(* of [0,1).  The body of next_step() and of the    *)
(* two interval searches is split at the loop heads, so that one action is *)
(* one pass through a loop test; pc names the loop head the running call   *)
(* is at, "idle" when no call is running.                                  *)
(***************************************************************************)
EXTENDS Integers, Sequences, FiniteSets

VARIABLES
    mode,        \* self.mode
    update_fn,   \* self.update_fn: "stepout" or "double"
    slice,       \* self.slice, <<l, r>>
    curr_x,      \* self.curr_x
    fx,          \* self.fx
    curr_y,      \* self.curr_y
    horizontal,  \* self.horizontal
    pc,          \* position of the running call
    l, r, j, k,  \* locals of stepout() / double()
    calls,       \* number of next_step() calls started since construction
    j0, k0,      \* budgets j and k as fixed at the start of the stepout call
    nleft,       \* expansions of l made by the running / last search
    nright,      \* expansions of r made by the running / last search
    ran,         \* the search function running / last run: "none", "stepout", "double"
    raised,      \* outcome of the last API call: "none" or "RuntimeError"
    lastOk,      \* id of the last change_update_fn call that returned, -1 if none
    args,        \* the function called on its own and its arguments, [fn |-> "none"] if none
    result       \* what that call returned or raised

vars == <<mode, update_fn, slice, curr_x, fx, curr_y, horizontal, pc, l, r, j, k,
          calls, j0, k0, nleft, nright, ran, raised, lastOk, args, result>>

state == <<slice, curr_x, fx, curr_y, horizontal>>
locals == <<l, r, j, k>>
history == <<j0, k0, nleft, nright, ran>>

-----------------------------------------------------------------------------
(* Resolution and size of the model *)

\* number of distinct fractions a uniform draw can take
Res == 3
\* next_step() calls explored
MaxCalls == 10
\* expansions of one double() call explored
MaxDoublings == 6

(* Parameters of the program: positions in eighths, heights in hundredths *)

num_modes == 5
\* x_low, x_high = -8, 8
x_low == -64
x_high == 64
\* x_step, coarsened from 0.01 to 0.5
x_step == 4
\* the value -1 that hides a position (slice, curr_x) or a height (fx, curr_y, horizontal)
hidden_x == -8
hidden_y == -100
\* stepout(w=1, m=40)
stepout_w == 8
stepout_m == 40
\* double(w=.25, p=5)
double_w == 2
double_p == 5

Abs(a) == IF a < 0 THEN -a ELSE a

-----------------------------------------------------------------------------
(* The discretized density *)

\* len(np.arange(x_low, x_high, x_step))
NX == (x_high - x_low + x_step - 1) \div x_step

\* self.X, indexed from 0
X == [i \in 0..(NX - 1) |-> x_low + i * x_step]

\* one mode of f: height h at centre c, falling to 0 at distance hw
Bump(x, c, hw, h) == IF Abs(x - c) >= hw THEN 0 ELSE (h * (hw - Abs(x - c))) \div hw

\* f(x): three modes at -3, .75 and 3 over a tail that is positive everywhere
Density(x) ==
    1 + Bump(x, -24, 32, 39) + Bump(x, 6, 8, 48) + Bump(x, 24, 16, 39)

\* self.Y
Y == [i \in 0..(NX - 1) |-> Density(X[i])]

\* np.argmin(np.abs(self.X - x)): scan from index i, best index so far b
RECURSIVE ArgMinFrom(_, _, _)
ArgMinFrom(x, i, b) ==
    IF i >= NX THEN b
    ELSE IF Abs(X[i] - x) < Abs(X[b] - x) THEN ArgMinFrom(x, i + 1, i)
    ELSE ArgMinFrom(x, i + 1, b)

\* slip: <= in the scan, so that the last of several nearest points wins
RECURSIVE ArgMinLastFrom(_, _, _)
ArgMinLastFrom(x, i, b) ==
    IF i >= NX THEN b
    ELSE IF Abs(X[i] - x) <= Abs(X[b] - x) THEN ArgMinLastFrom(x, i + 1, i)
    ELSE ArgMinLastFrom(x, i + 1, b)

ArgMin_last(x) == ArgMinLastFrom(x, 1, 0)

ArgMin(x) == ArgMinFrom(x, 1, 0)

\* the look-up tabulated once over the positions the searches reach from the grid
FxMemo == [x \in (x_low - 2 * stepout_m * stepout_w)..(x_high + 2 * stepout_m * stepout_w) |->
              Y[ArgMin(x)]]

\* Elliptical.__fx
Fx(x) == IF x \in DOMAIN FxMemo THEN FxMemo[x] ELSE Y[ArgMin(x)]

\* np.random.uniform(low, high): low + (high - low) * U, U one of i/Res
uniform(low, high) == {low + ((high - low) * i) \div Res : i \in 0..(Res - 1)}

-----------------------------------------------------------------------------
(* Construction *)

\* the sampler as __init__ leaves it
Constructed ==
    /\ mode = -1
    /\ update_fn = "stepout"
    /\ slice = <<hidden_x, hidden_x>>
    /\ curr_x = hidden_x
    /\ fx = hidden_y
    /\ curr_y = hidden_y
    /\ horizontal = hidden_y
    /\ pc = "idle"
    /\ l = 0 /\ r = 0 /\ j = 0 /\ k = 0
    /\ calls = 0
    /\ j0 = 0 /\ k0 = 0 /\ nleft = 0 /\ nright = 0 /\ ran = "none"
    /\ raised = "none"
    /\ lastOk = -1

Init ==
    /\ Constructed
    /\ args = [fn |-> "none"]
    /\ result = [tag |-> "none"]

-----------------------------------------------------------------------------
(* next_step() *)

\* slip: the modulus one short, so that mode 4 is never entered
NextMode_short(m) == (m + 1) % (num_modes - 1)

\* self.mode = (self.mode + 1) % self.num_modes
NextMode(m) == (m + 1) % num_modes

\* entry of next_step(): a new call starts only when none is running
Advance ==
    /\ pc = "idle"
    /\ calls < MaxCalls
    /\ mode' = NextMode(mode)
    /\ calls' = calls + 1
    /\ raised' = "none"
    /\ UNCHANGED <<update_fn, lastOk, args, result>>

\* Elliptical.__sample_x
sample_x == uniform(slice[1], slice[2])

\* mode 0, up to the first test of the rejection loop
SampleX ==
    /\ Advance
    /\ mode' = 0
    /\ curr_x' \in sample_x
    /\ pc' = "reject"
    /\ j0' = 0 /\ k0' = 0 /\ nleft' = 0 /\ nright' = 0 /\ ran' = "none"
    /\ UNCHANGED <<slice, fx, curr_y, horizontal, locals>>

\* slip: y hidden before the loop, so that the test is made against -1
Rejected_afterClear == hidden_y > Fx(curr_x)

\* while self.curr_y > self.__fx(self.curr_x)
Rejected == curr_y > Fx(curr_x)

\* one pass of the rejection loop: draw again
RejectX ==
    /\ pc = "reject"
    /\ Rejected
    /\ curr_x' \in sample_x
    /\ UNCHANGED <<mode, update_fn, slice, fx, curr_y, horizontal, pc, locals,
                   calls, history, raised, lastOk, args, result>>

\* the loop exits: hide f(x), y and the horizontal line, refresh, return
AcceptX ==
    /\ pc = "reject"
    /\ ~Rejected
    /\ horizontal' = hidden_y
    /\ fx' = hidden_y
    /\ curr_y' = hidden_y
    /\ pc' = "idle"
    /\ UNCHANGED <<mode, update_fn, slice, curr_x, locals, calls, history, raised, lastOk, args, result>>

\* mode 1
EvaluateF ==
    /\ Advance
    /\ mode' = 1
    /\ fx' = Fx(curr_x)
    /\ UNCHANGED <<slice, curr_x, curr_y, horizontal, pc, locals, history>>

\* slip: the height drawn from Uniform(0,1), not scaled by f(x)
sample_y_unscaled(f) == uniform(0, 100)

\* np.random.uniform(low=0, high=self.fx)
sample_y(f) == uniform(0, f)

\* slip: the old slice left in place
SampleY_keep ==
    /\ Advance
    /\ mode' = 2
    /\ curr_y' \in sample_y(fx)
    /\ UNCHANGED <<slice, curr_x, fx, horizontal, pc, locals, history>>

\* mode 2
SampleY ==
    /\ Advance
    /\ mode' = 2
    /\ curr_y' \in sample_y(fx)
    /\ slice' = <<hidden_x, hidden_x>>
    /\ UNCHANGED <<curr_x, fx, horizontal, pc, locals, history>>

\* slip: the line drawn at f(x)
ShowSlice_fx ==
    /\ Advance
    /\ mode' = 3
    /\ horizontal' = fx
    /\ UNCHANGED <<slice, curr_x, fx, curr_y, pc, locals, history>>

\* mode 3
ShowSlice ==
    /\ Advance
    /\ mode' = 3
    /\ horizontal' = curr_y
    /\ UNCHANGED <<slice, curr_x, fx, curr_y, pc, locals, history>>

-----------------------------------------------------------------------------
(* stepout(x, y, w, m), called with x = curr_x and y = curr_y *)

\* slip: the offset added to x
Bracket_plus(x, w, wu) == <<x + wu, (x + wu) + w>>

\* l = x - w*u ; r = l + w, with wu the drawn value of w*u
Bracket(x, w, wu) == <<x - wu, (x - wu) + w>>

\* slip: k = m - j
Budget_off(m, mv) == <<mv, m - mv>>

\* j = math.floor(m*v) ; k = m - 1 - j, with mv the drawn value of floor(m*v)
Budget(m, mv) == <<mv, m - 1 - mv>>

\* mode 4 with update_fn = stepout, up to the first test of the left loop
StepoutCall(wu, mv) ==
    /\ Advance
    /\ mode' = 4
    /\ update_fn = "stepout"
    /\ l' = Bracket(curr_x, stepout_w, wu)[1]
    /\ r' = Bracket(curr_x, stepout_w, wu)[2]
    /\ j' = Budget(stepout_m, mv)[1]
    /\ k' = Budget(stepout_m, mv)[2]
    /\ j0' = j' /\ k0' = k'
    /\ nleft' = 0 /\ nright' = 0 /\ ran' = "stepout"
    /\ pc' = "stepout_left"
    /\ UNCHANGED state

\* while j > 0 and y < self.__fx(l)
StepoutLeftTest == j > 0 /\ curr_y < Fx(l)

StepoutLeft ==
    /\ pc = "stepout_left"
    /\ StepoutLeftTest
    /\ l' = l - stepout_w
    /\ j' = j - 1
    /\ slice' = <<l', r>>
    /\ nleft' = nleft + 1
    /\ UNCHANGED <<mode, update_fn, curr_x, fx, curr_y, horizontal, pc, r, k,
                   calls, j0, k0, nright, ran, raised, lastOk, args, result>>

StepoutLeftExit ==
    /\ pc = "stepout_left"
    /\ ~StepoutLeftTest
    /\ pc' = "stepout_right"
    /\ UNCHANGED <<mode, state, update_fn, locals, calls, history, raised, lastOk, args, result>>

\* while k > 0 and y < self.__fx(r)
StepoutRightTest == k > 0 /\ curr_y < Fx(r)

\* slip: one loop alternating the two sides, the left test made again after a step right
StepoutRight_interleaved ==
    /\ pc = "stepout_right"
    /\ StepoutRightTest
    /\ r' = r + stepout_w
    /\ k' = k - 1
    /\ slice' = <<l, r'>>
    /\ nright' = nright + 1
    /\ pc' = "stepout_left"
    /\ UNCHANGED <<mode, update_fn, curr_x, fx, curr_y, horizontal, l, j,
                   calls, j0, k0, nleft, ran, raised, lastOk, args, result>>

StepoutRight ==
    /\ pc = "stepout_right"
    /\ StepoutRightTest
    /\ r' = r + stepout_w
    /\ k' = k - 1
    /\ slice' = <<l, r'>>
    /\ nright' = nright + 1
    /\ UNCHANGED <<mode, update_fn, curr_x, fx, curr_y, horizontal, pc, l, j,
                   calls, j0, k0, nleft, ran, raised, lastOk, args, result>>

\* return [l, r], stored by next_step() into self.slice
StepoutReturn ==
    /\ pc = "stepout_right"
    /\ ~StepoutRightTest
    /\ slice' = <<l, r>>
    /\ pc' = "idle"
    /\ l' = 0 /\ r' = 0 /\ j' = 0 /\ k' = 0
    /\ UNCHANGED <<mode, update_fn, curr_x, fx, curr_y, horizontal,
                   calls, history, raised, lastOk, args, result>>

-----------------------------------------------------------------------------
(* double(x, y, w, p), called with x = curr_x and y = curr_y *)

\* mode 4 with update_fn = double, up to the first test of the loop
DoubleCall(wu) ==
    /\ Advance
    /\ mode' = 4
    /\ update_fn = "double"
    /\ l' = Bracket(curr_x, double_w, wu)[1]
    /\ r' = Bracket(curr_x, double_w, wu)[2]
    /\ j' = 0
    /\ k' = double_p
    /\ j0' = 0 /\ k0' = 0
    /\ nleft' = 0 /\ nright' = 0 /\ ran' = "double"
    /\ pc' = "double"
    /\ UNCHANGED state

\* while k > 0 and (y < self.__fx(l) or y < self.__fx(r))
DoubleTest == k > 0 /\ (curr_y < Fx(l) \/ curr_y < Fx(r))

\* slip: l moved by the initial width w, not by the current width
DoubleLeft_fixed(a, b) == <<a - double_w, b>>

\* slip: the interval moved to the right, l = r, in place of being extended
DoubleRight_slide(a, b) == <<b, b + (b - a)>>

\* the two branches on v < 0.5, v = vr/Res; width = r - l
DoubleLeft(a, b) == <<a - (b - a), b>>
DoubleRight(a, b) == <<a, b + (b - a)>>

\* one pass of the loop body; k is left as it is
DoubleExpand(vr) ==
    /\ pc = "double"
    /\ DoubleTest
    /\ nleft + nright < MaxDoublings
    /\ IF 2 * vr < Res
       THEN /\ l' = DoubleLeft(l, r)[1] /\ r' = DoubleLeft(l, r)[2]
            /\ nleft' = nleft + 1 /\ nright' = nright
       ELSE /\ l' = DoubleRight(l, r)[1] /\ r' = DoubleRight(l, r)[2]
            /\ nleft' = nleft /\ nright' = nright + 1
    /\ slice' = <<l', r'>>
    /\ UNCHANGED <<mode, update_fn, curr_x, fx, curr_y, horizontal, pc, j, k,
                   calls, j0, k0, ran, raised, lastOk, args, result>>

DoubleReturn ==
    /\ pc = "double"
    /\ ~DoubleTest
    /\ slice' = <<l, r>>
    /\ pc' = "idle"
    /\ l' = 0 /\ r' = 0 /\ j' = 0 /\ k' = 0
    /\ UNCHANGED <<mode, update_fn, curr_x, fx, curr_y, horizontal,
                   calls, history, raised, lastOk, args, result>>

-----------------------------------------------------------------------------
(* change_update_fn(fn), the radio button's handler *)

\* slip: a plain else in place of the test fn == 1, so that no id is refused
change_update_fn_else(fn) ==
    /\ pc = "idle"
    /\ IF fn = 0 THEN update_fn' = "stepout" /\ lastOk' = 0 /\ raised' = "none"
       ELSE update_fn' = "double" /\ lastOk' = fn /\ raised' = "none"
    /\ UNCHANGED <<mode, state, pc, locals, calls, history, args, result>>

\* slip: the two functions exchanged
change_update_fn_swapped(fn) ==
    /\ pc = "idle"
    /\ IF fn = 0 THEN update_fn' = "double" /\ lastOk' = 0 /\ raised' = "none"
       ELSE IF fn = 1 THEN update_fn' = "stepout" /\ lastOk' = 1 /\ raised' = "none"
       ELSE raised' = "RuntimeError" /\ UNCHANGED <<update_fn, lastOk>>
    /\ UNCHANGED <<mode, state, pc, locals, calls, history, args, result>>

change_update_fn(fn) ==
    /\ pc = "idle"
    /\ IF fn = 0 THEN update_fn' = "stepout" /\ lastOk' = 0 /\ raised' = "none"
       ELSE IF fn = 1 THEN update_fn' = "double" /\ lastOk' = 1 /\ raised' = "none"
       ELSE raised' = "RuntimeError" /\ UNCHANGED <<update_fn, lastOk>>
    /\ UNCHANGED <<mode, state, pc, locals, calls, history, args, result>>

\* ids a caller may pass
Ids == 0..2

-----------------------------------------------------------------------------
(* Specification *)

\* steps of a call that is running
Running ==
    \/ RejectX
    \/ AcceptX
    \/ StepoutLeft
    \/ StepoutLeftExit
    \/ StepoutRight
    \/ StepoutReturn
    \/ \E vr \in uniform(0, Res) : DoubleExpand(vr)
    \/ DoubleReturn

Next ==
    \/ SampleX
    \/ EvaluateF
    \/ SampleY
    \/ ShowSlice
    \/ \E wu \in uniform(0, stepout_w), mv \in uniform(0, stepout_m) : StepoutCall(wu, mv)
    \/ \E wu \in uniform(0, double_w) : DoubleCall(wu)
    \/ \E fn \in Ids : change_update_fn(fn)
    \/ Running

Spec == Init /\ [][Next]_vars

\* a call that is running keeps running: the interpreter does not stop inside a loop
FairSpec == Spec /\ WF_vars(Running)

-----------------------------------------------------------------------------
(* __find_patches(X, Y, threshold); arrays are functions on 0..n-1 *)

\* len(a)
Len0(a) == Cardinality(DOMAIN a)

\* np.sign
Sign(a) == IF a > 0 THEN 1 ELSE IF a < 0 THEN -1 ELSE 0

\* signs = np.sign(Y - threshold)
Signs(Yv, thr) == [i \in DOMAIN Yv |-> Sign(Yv[i] - thr)]

\* diff = np.diff(signs)
np_diff(a) == [i \in 0..(Len0(a) - 2) |-> a[i + 1] - a[i]]

\* for i in range(1,len(diff)): if diff[i-1] != 0: diff[i] = 0, on the array itself
RECURSIVE CollapseFrom(_, _)
CollapseFrom(d, i) ==
    IF i >= Len0(d) THEN d
    ELSE CollapseFrom(IF d[i - 1] # 0 THEN [d EXCEPT ![i] = 0] ELSE d, i + 1)

Collapse(d) == CollapseFrom(d, 1)

\* np.argwhere(diff != 0).reshape(-1).tolist(), from index i on
RECURSIVE ArgWhereFrom(_, _)
ArgWhereFrom(d, i) ==
    IF i >= Len0(d) THEN <<>>
    ELSE (IF d[i] # 0 THEN <<i>> ELSE <<>>) \o ArgWhereFrom(d, i + 1)

\* intersections, with 0 inserted in front and len(X) appended
Intersections(Xv, Yv, thr) ==
    <<0>> \o ArgWhereFrom(Collapse(np_diff(Signs(Yv, thr))), 0) \o <<Len0(Xv)>>

\* X.insert(0, X[0]) ; X.append(X[-1])
Padded(Xv) ==
    [i \in 0..(Len0(Xv) + 1) |->
        IF i = 0 THEN Xv[0]
        ELSE IF i = Len0(Xv) + 1 THEN Xv[Len0(Xv) - 1]
        ELSE Xv[i - 1]]

\* the two inner loops: range(end, start, -1) with threshold, range(start, end) with Y
PatchXs(Xp, start, end) ==
    [q \in 1..(end - start) |-> Xp[end - q + 1]] \o [q \in 1..(end - start) |-> Xp[start + q - 1]]

PatchYs(Yv, thr, start, end) ==
    [q \in 1..(end - start) |-> thr] \o [q \in 1..(end - start) |-> Yv[start + q - 1]]

\* the outer loop from position ind of intersections (1-based here), appending to
\* acc = <<patch_xs, patch_ys>>
RECURSIVE PatchesFrom(_, _, _, _, _, _)
PatchesFrom(Xp, Yv, thr, inter, ind, acc) ==
    IF ind > Len(inter) THEN acc
    ELSE LET start == inter[ind - 1]
             end == inter[ind]
             midpoint == (start + end) \div 2
             above == Yv[midpoint] >= thr
         IN  PatchesFrom(Xp, Yv, thr, inter, ind + 1,
                 IF above
                 THEN <<Append(acc[1], PatchXs(Xp, start, end)),
                        Append(acc[2], PatchYs(Yv, thr, start, end))>>
                 ELSE acc)

find_patches(Xv, Yv, thr) ==
    LET inter == Intersections(Xv, Yv, thr)
        out == PatchesFrom(Padded(Xv), Yv, thr, inter, 2, <<<<>>, <<>>>>)
    IN  [tag |-> "patches", diff |-> Collapse(np_diff(Signs(Yv, thr))),
         intersections |-> inter, patch_xs |-> out[1], patch_ys |-> out[2]]

-----------------------------------------------------------------------------
(* __init__(x_low, x_high, x_step) *)

\* len(np.arange(lo, hi, st)) for st # 0: ceil((hi - lo) / st), 0 if that is not positive
arange_len(lo, hi, st) ==
    IF st > 0 /\ hi > lo THEN (hi - lo + st - 1) \div st
    ELSE IF st < 0 /\ hi < lo THEN (lo - hi - st - 1) \div (0 - st)
    ELSE 0

\* np.arange(lo, hi, st)
arange(lo, hi, st) == [i \in 0..(arange_len(lo, hi, st) - 1) |-> lo + i * st]

\* what the constructor does with its arguments: np.arange refuses a step of 0, an
\* empty grid makes X[0] in __find_patches raise IndexError, any other grid is accepted
construct(lo, hi, st) ==
    IF st = 0 THEN [tag |-> "raised", error |-> "np.arange"]
    ELSE IF arange_len(lo, hi, st) = 0 THEN [tag |-> "raised", error |-> "IndexError"]
    ELSE [tag |-> "constructed", X |-> arange(lo, hi, st)]

-----------------------------------------------------------------------------
(* The functions called on their own *)

\* longest grid passed to __find_patches
MaxGrid == 5
\* highest density value on such a grid
MaxHeight == 2
\* how far beyond the grid __fx is called
FxMargin == 6

\* a grid of n points
GridOf(n) == arange(-20, -20 + 10 * n, 10)

FindPatchesCalls ==
    UNION {{[fn |-> "find_patches", X |-> GridOf(n), Y |-> Yv, threshold |-> thr] :
               Yv \in [0..(n - 1) -> 0..MaxHeight], thr \in 0..1} : n \in 1..MaxGrid}

FxCalls == {[fn |-> "fx", x |-> x] : x \in (x_low - FxMargin)..(x_high + FxMargin)}

InitCalls ==
    {[fn |-> "init", x_low |-> lo, x_high |-> hi, x_step |-> st] :
        lo \in {-8, 0, 8}, hi \in {-8, 0, 8}, st \in {-4, 0, 4}}

FnInit ==
    /\ Constructed
    /\ args \in FindPatchesCalls \cup FxCalls \cup InitCalls
    /\ result = [tag |-> "pending"]

Returns(res) ==
    /\ result.tag = "pending"
    /\ result' = res
    /\ UNCHANGED <<mode, update_fn, state, pc, locals, calls, history, raised, lastOk, args>>

DoFindPatches ==
    /\ args.fn = "find_patches"
    /\ Returns(find_patches(args.X, args.Y, args.threshold))

DoFx ==
    /\ args.fn = "fx"
    /\ Returns([tag |-> "value", ind |-> ArgMin(args.x), y |-> Fx(args.x)])

DoInit ==
    /\ args.fn = "init"
    /\ Returns(construct(args.x_low, args.x_high, args.x_step))

FnNext ==
    \/ DoFindPatches
    \/ DoFx
    \/ DoInit

FnSpec == FnInit /\ [][FnNext]_vars

-----------------------------------------------------------------------------
(* Properties *)

RECURSIVE Pow2(_)
Pow2(n) == IF n <= 0 THEN 1 ELSE 2 * Pow2(n - 1)

InSearch == pc \in {"stepout_left", "stepout_right", "double"}

\* C1: the mode sequence is cyclic: once a call has been made, mode is in 0..4 and
\* the n-th next_step() call since construction executes mode (n-1) mod 5, whatever
\* change_update_fn calls came in between.
C1_ModeCyclic ==
    calls >= 1 => (mode \in 0..4 /\ mode = (calls - 1) % 5)

\* C1 witness: the cycle has wrapped round to mode 0 with the strategy changed on the way
C1_Wrapped == calls = 6 /\ mode = 0 /\ pc = "idle" /\ lastOk = 1

\* C2: from the mode 2 step until the next mode 0 step, 0 <= y <= fx and fx is the
\* nearest-grid-point density of the current x.
C2_HeightUnderDensity ==
    mode \in {2, 3, 4} => (0 <= curr_y /\ curr_y <= fx /\ fx = Y[ArgMin(curr_x)])

\* C2 witness: a second iteration completed with a height above 0
C2_SecondIterationDone == mode = 4 /\ pc = "idle" /\ calls = 10 /\ curr_y > 0

\* C3: after every mode 4 step, under either strategy, slice.l <= x <= slice.r.
C3_SliceBracketsX ==
    (mode = 4 /\ pc = "idle") => (slice[1] <= curr_x /\ curr_x <= slice[2])

\* C3 witness: a doubling search that grew on both sides has returned, after a first
\* iteration whose slice moved x off its initial value
C3_SearchReturned ==
    /\ mode = 4 /\ pc = "idle" /\ ran = "double"
    /\ nleft > 0 /\ nright > 0
    /\ calls = 10 /\ curr_x # hidden_x

\* C4: a double() call makes at most p doublings.
C4_DoublingBudget ==
    ran = "double" => nleft + nright <= double_p

\* C5: in a stepout call the budgets fixed at the start satisfy j + k = m - 1, j >= 0,
\* k >= 0; at most j expansions go left and at most k go right, each expansion using
\* up one unit of its budget.
C5_StepoutBudget ==
    ran = "stepout" =>
        /\ j0 + k0 = stepout_m - 1 /\ j0 >= 0 /\ k0 >= 0
        /\ nleft <= j0 /\ nright <= k0
        /\ nleft + nright <= stepout_m - 1
        /\ InSearch => (j = j0 - nleft /\ k = k0 - nright)

\* C5 witness: a stepout call that used up both budgets has returned
C5_BudgetsExhausted ==
    /\ ran = "stepout" /\ pc = "idle" /\ mode = 4
    /\ j0 > 0 /\ nleft = j0 /\ k0 > 0 /\ nright = k0

\* C6: in a doubling search the width after n expansions is w * 2^n.
C6_WidthDoubles ==
    ran = "double" =>
        /\ pc = "double" => r - l = double_w * Pow2(nleft + nright)
        /\ (pc = "idle" \/ nleft + nright > 0) =>
               slice[2] - slice[1] = double_w * Pow2(nleft + nright)

\* C6 witness: a doubling search that has grown twice on each side
C6_GrownBothSides == ran = "double" /\ pc = "double" /\ nleft >= 2 /\ nright >= 2

\* C7: change_update_fn with an id other than 0 and 1 raises and changes neither the
\* selected function nor mode, x, fx, y, horizontal and slice.
C7_InvalidIdRefused ==
    [][\A fn \in Ids \ {0, 1} :
          change_update_fn(fn) =>
              /\ raised' = "RuntimeError"
              /\ UNCHANGED <<update_fn, mode, slice, curr_x, fx, curr_y, horizontal>>]_vars

\* C7 witness: an id was refused while doubling was selected, in the middle of an iteration
C7_RefusedKeepsDoubling ==
    raised = "RuntimeError" /\ update_fn = "double" /\ lastOk = 1 /\ mode = 2

\* C8: the search a mode 4 step runs is the one chosen by the last change_update_fn call
\* that returned (stepout if there was none), and change_update_fn changes none of mode,
\* x, fx, y, horizontal and slice.
C8_LastChoiceUsed ==
    /\ [](InSearch => ran = (IF lastOk = 1 THEN "double" ELSE "stepout"))
    /\ [][(\E fn \in Ids : change_update_fn(fn)) =>
              UNCHANGED <<mode, slice, curr_x, fx, curr_y, horizontal>>]_vars

\* C8 witness: doubling runs in the second iteration after being chosen
C8_DoublingChosenRuns == pc = "double" /\ lastOk = 1 /\ calls = 10

\* C9: the rejection loop of mode 0 is bounded: a next_step() call that has entered it
\* returns, or fails with SamplingStalled, after finitely many draws.
C9_Mode0Returns ==
    (pc = "reject") ~> (pc = "idle" \/ raised = "SamplingStalled")

\* C10: before and during the first mode 0 step the sampling bounds are the full domain.
C10_InitialBoundsAreDomain ==
    (calls <= 1 /\ mode <= 0) => slice = <<x_low, x_high>>

\* C14: in every iteration after the first, the mode 0 step leaves the slice of the
\* preceding mode 4 step in place and returns with an x inside it whose density is at
\* least the height y of the preceding iteration; y is hidden only after that test.
C14_AcceptedInPreviousSlice ==
    [][(pc = "reject" /\ pc' = "idle" /\ calls > 5) =>
          /\ slice' = slice
          /\ slice[1] <= curr_x' /\ curr_x' <= slice[2]
          /\ curr_y >= 0
          /\ Y[ArgMin(curr_x')] >= curr_y
          /\ curr_y' = hidden_y]_vars

\* C14 witness: the second mode 0 step has returned an x strictly inside a slice that
\* does not start at the first x
C14_SecondSampleTaken ==
    /\ mode = 0 /\ pc = "idle" /\ calls = 6
    /\ slice[1] < curr_x /\ curr_x < slice[2] /\ curr_x # hidden_x

\* C15: after a mode 0 step fx, y and horizontal are hidden; from the mode 2 step until
\* the search of mode 4 the slice is hidden while y holds the new height.
C15_StaleValuesHidden ==
    /\ (mode = 0 /\ pc = "idle") =>
           (fx = hidden_y /\ curr_y = hidden_y /\ horizontal = hidden_y)
    /\ mode \in {2, 3} => (slice = <<hidden_x, hidden_x>> /\ curr_y >= 0)

\* C15 witness: the mode 2 step of the second iteration, which had a slice to hide
C15_SecondHeightDrawn == mode = 2 /\ calls = 8 /\ curr_y > 0 /\ curr_x # hidden_x

\* C16: between next_step() calls, horizontal is hidden when the last mode run is 0, 1,
\* 2 or none, and equals the current y when it is 3 or 4.
C16_HorizontalIsY ==
    pc = "idle" =>
        /\ mode \in {-1, 0, 1, 2} => horizontal = hidden_y
        /\ mode \in {3, 4} => (horizontal = curr_y /\ curr_y >= 0)

\* C16 witness: the line is shown at a height above 0 after the second search
C16_LineShown == pc = "idle" /\ mode = 4 /\ calls = 10 /\ horizontal > 0 /\ ran = "stepout"

\* C17: in a stepout call no step to the left follows a step to the right: while the
\* left loop runs r has not moved, and once r has moved l stays where it is.
C17_LeftBeforeRight ==
    /\ [](pc = "stepout_left" => nright = 0)
    /\ [][(ran = "stepout" /\ nright > 0 /\ ran' = "stepout") =>
              (nleft' = nleft /\ slice'[1] = slice[1])]_vars

\* C17 witness: a stepout call that went both ways, at its second step to the right
C17_BothWays == pc = "stepout_right" /\ nleft > 0 /\ nright = 2

\* C18: every interval a search writes into slice is the pair <<l, r>> it has reached,
\* contains x and contains the interval written before it; the slice stored when the
\* call returns is the pair returned.
C18_IntermediateSlices ==
    /\ []((InSearch /\ nleft + nright > 0) =>
             (slice = <<l, r>> /\ slice[1] <= curr_x /\ curr_x <= slice[2]))
    /\ [][(InSearch /\ nleft + nright > 0 /\ pc' # "idle") =>
              (slice'[1] <= slice[1] /\ slice'[2] >= slice[2])]_vars
    /\ [][(InSearch /\ pc' = "idle") => slice' = <<l, r>>]_vars

\* C18 witness: a doubling search of the second iteration with writes on both sides
C18_WrittenBothSides ==
    /\ InSearch /\ calls = 10 /\ nleft > 0 /\ nright > 0
    /\ slice = <<l, r>> /\ ran = "double" /\ curr_x # hidden_x

\* C11: when the density is strictly above the threshold exactly on one run of indices
\* [a, b] and strictly below it elsewhere, __find_patches returns exactly one region and
\* the x-values of its vertices range from X[a] to X[b].
C11_OneRegionSpansRun ==
    (args.fn = "find_patches" /\ result.tag = "patches") =>
        \A a \in DOMAIN args.Y : \A b \in DOMAIN args.Y :
            (/\ a <= b
             /\ \A i \in DOMAIN args.Y :
                    IF a <= i /\ i <= b THEN args.Y[i] > args.threshold
                    ELSE args.Y[i] < args.threshold)
            => /\ Len(result.patch_xs) = 1
               /\ \A q \in DOMAIN result.patch_xs[1] :
                      args.X[a] <= result.patch_xs[1][q] /\ result.patch_xs[1][q] <= args.X[b]
               /\ \E q \in DOMAIN result.patch_xs[1] : result.patch_xs[1][q] = args.X[a]
               /\ \E q \in DOMAIN result.patch_xs[1] : result.patch_xs[1][q] = args.X[b]

\* C12: __fx(x) returns Y[i] for the index i that minimises |X[i] - x|, the lowest such
\* index on a tie; for x outside the grid this is the nearest end point of the grid.
C12_NearestGridPoint ==
    (args.fn = "fx" /\ result.tag = "value") =>
        /\ result.ind \in 0..(NX - 1)
        /\ \A i \in 0..(NX - 1) :
              /\ Abs(X[result.ind] - args.x) <= Abs(X[i] - args.x)
              /\ Abs(X[result.ind] - args.x) = Abs(X[i] - args.x) => result.ind <= i
        /\ result.y = Y[result.ind]
        /\ args.x <= X[0] => result.ind = 0
        /\ args.x >= X[NX - 1] => result.ind = NX - 1

\* C12 witness: __fx has answered for an x half way between two grid points
C12_TieAnswered ==
    /\ args.fn = "fx"
    /\ result.tag = "value"
    /\ result.ind < NX - 1
    /\ X[result.ind] < args.x
    /\ args.x - X[result.ind] = X[result.ind + 1] - args.x

\* C13: constructing a sampler with x_low >= x_high or with x_step <= 0 fails, and no
\* sampler results (whatever the class of the error raised).
C13_BadDomainRefused ==
    (/\ args.fn = "init"
     /\ result.tag # "pending"
     /\ (args.x_low >= args.x_high \/ args.x_step <= 0))
    => result.tag = "raised"

\* C19: after the collapse a difference is a marker exactly when it is the first of a
\* run of consecutive non-zero sign differences, whatever the length of the run.
C19_FirstMarkerOnly ==
    (args.fn = "find_patches" /\ result.tag = "patches") =>
        LET raw == np_diff(Signs(args.Y, args.threshold))
        IN  \A i \in DOMAIN raw :
                (result.diff[i] # 0) <=> (raw[i] # 0 /\ (i = 0 \/ raw[i - 1] = 0))

\* C20: every region is the x-values of a run in reverse order, each with the threshold,
\* followed by the same x-values in forward order, each with the density at that x.
C20_RegionVertices ==
    (args.fn = "find_patches" /\ result.tag = "patches") =>
        \A p \in DOMAIN result.patch_xs :
            LET xs == result.patch_xs[p]
                ys == result.patch_ys[p]
                m == Len(xs) \div 2
            IN  /\ Len(xs) = 2 * m
                /\ Len(ys) = 2 * m
                /\ \A q \in 1..m :
                      /\ ys[q] = args.threshold
                      /\ xs[q] = xs[2 * m + 1 - q]
                      /\ \E i \in DOMAIN args.X : args.X[i] = xs[m + q] /\ args.Y[i] = ys[m + q]

====
